---- MODULE Spec2Model ----
(***************************************************************************)
(* Model of the session_12 persistence gateway (database.py, models.py)    *)
(* and of the todo migration (0001_initial.py).                            *)
(*                                                                         *)
(* Three specifications are defined:                                       *)
(*   Spec        one caller issuing create_task calls one after another,   *)
(*               under every process environment;                          *)
(*   SpecConc    two callers whose create_task calls interleave at the     *)
(*               open-session / add / commit / close steps;                *)
(*   SpecImport  the loading of the two modules, statement by statement,   *)
(*               for either module imported first.                         *)
(* Spec and SpecConc describe the functions of database.py as they behave  *)
(* once both modules are loaded and the schema of models.py is declared in *)
(* the store.                                                              *)
(***************************************************************************)
EXTENDS Integers, Sequences, FiniteSets, TLC

VARIABLES
    environ,    \* os.environ: a function from the variables that are set to their values
    tables,     \* the database: a function from the existing tables to [columns, rows]
    seq,        \* last value handed out by the sequence behind task.id
    engines,    \* the engines created so far, in order of creation
    sessions,   \* the Session objects created so far, in order of creation
    pc,         \* per caller: its position in create_task
    arg,        \* per caller: the value it passed as `task`
    sess,       \* per caller: index of the session bound by its with statement, 0 if none
    err,        \* per caller: the exception in flight or raised to it, "none" if none
    callno,     \* per caller: the number of its current call, 0 if it has none
    ncalls,     \* the number of create_task calls started so far
    modules,    \* sys.modules restricted to this package: module -> "initializing" | "loaded"
    ns,         \* per module: the names its body has bound so far
    frames,     \* the stack of module bodies being executed, innermost last
    exc,        \* the exception propagating out of the import, "none" if none
    metadata    \* SQLModel.metadata: the names of the tables declared so far

vars == <<environ, tables, seq, engines, sessions, pc, arg, sess, err, callno,
          ncalls, modules, ns, frames, exc, metadata>>

importVars == <<modules, ns, frames, exc, metadata>>

(***************************************************************************)
(* Bounds.                                                                 *)
(***************************************************************************)
MaxCalls == 2

Callers == {1, 2}

(***************************************************************************)
(* Python values.                                                          *)
(***************************************************************************)
\* The None object where a string is expected, and its str(): an f-string
\* formats None as the text "None".
None == "<None>"

Str(v) == IF v = None THEN "None" ELSE v

\* A NULL id. models.py declares id with default=None.
NullId == 0

PyNone == [type |-> "NoneType"]

\* A truthy object that is not a mapped instance.
PyStr == [type |-> "str"]

PyTask(kw) == [type |-> "Task", kw |-> kw]

\* `assert task` tests the truth value of its operand; a Task instance
\* defines neither __bool__ nor __len__ and is true.
TruthyNoCheck(v) == TRUE

Truthy(v) == v.type # "NoneType"

(***************************************************************************)
(* models.py: the Task model.                                              *)
(***************************************************************************)
TaskFields == {"id", "title", "description", "due_date", "is_done"}

\* The keyword arguments a caller may give to Task(...): any subset of the
\* fields, each with a value of its type.
Restrict(f, S) == [x \in S |-> f[x]]

FullKwargs ==
    [id : {1}, title : {"Buy milk", "Call mom"}, description : {"2%"},
     due_date : {"2025-03-20"}, is_done : BOOLEAN]

Kwargs == {Restrict(k, S) : k \in FullKwargs, S \in SUBSET TaskFields}

Given(kw, f) == f \in DOMAIN kw

\* Task(**kw). A table model is built without validation: a field that is
\* not given takes its declared default, and a field without a default stays
\* unset, which the INSERT sends as NULL.
TaskInitDoneByDefault(kw) ==
    [id          |-> IF Given(kw, "id") THEN kw.id ELSE NullId,
     title       |-> IF Given(kw, "title") THEN kw.title ELSE None,
     description |-> IF Given(kw, "description") THEN kw.description ELSE None,
     due_date    |-> IF Given(kw, "due_date") THEN kw.due_date ELSE None,
     is_done     |-> IF Given(kw, "is_done") THEN kw.is_done ELSE TRUE]

TaskInitIdByDefault(kw) ==
    [id          |-> IF Given(kw, "id") THEN kw.id ELSE 1,
     title       |-> IF Given(kw, "title") THEN kw.title ELSE None,
     description |-> IF Given(kw, "description") THEN kw.description ELSE None,
     due_date    |-> IF Given(kw, "due_date") THEN kw.due_date ELSE None,
     is_done     |-> IF Given(kw, "is_done") THEN kw.is_done ELSE FALSE]

TaskInit(kw) ==
    [id          |-> IF Given(kw, "id") THEN kw.id ELSE NullId,
     title       |-> IF Given(kw, "title") THEN kw.title ELSE None,
     description |-> IF Given(kw, "description") THEN kw.description ELSE None,
     due_date    |-> IF Given(kw, "due_date") THEN kw.due_date ELSE None,
     is_done     |-> IF Given(kw, "is_done") THEN kw.is_done ELSE FALSE]

\* The table a model class maps to when it sets no __tablename__: the class
\* name in lower case.
TaskTableName == "task"

\* The columns the model declares. A field annotated with a plain type is
\* NOT NULL; Optional[...] makes it nullable; the primary key is never NULL
\* once stored.
TaskColumns ==
    {[name |-> "id",          type |-> "INTEGER",   nullable |-> FALSE, pk |-> TRUE],
     [name |-> "title",       type |-> "VARCHAR",   nullable |-> FALSE, pk |-> FALSE],
     [name |-> "description", type |-> "VARCHAR",   nullable |-> FALSE, pk |-> FALSE],
     [name |-> "due_date",    type |-> "TIMESTAMP", nullable |-> FALSE, pk |-> FALSE],
     [name |-> "is_done",     type |-> "BOOLEAN",   nullable |-> FALSE, pk |-> FALSE]}

(***************************************************************************)
(* 0001_initial.py: the migration.                                         *)
(***************************************************************************)
MigrationTableName == "todo_tasks"

MigrationColumns ==
    {[name |-> "id",          type |-> "BIGINT",  nullable |-> FALSE, pk |-> TRUE],
     [name |-> "title",       type |-> "TEXT",    nullable |-> FALSE, pk |-> FALSE],
     [name |-> "description", type |-> "TEXT",    nullable |-> FALSE, pk |-> FALSE],
     [name |-> "due_date",    type |-> "DATE",    nullable |-> TRUE,  pk |-> FALSE],
     [name |-> "is_done",     type |-> "BOOLEAN", nullable |-> FALSE, pk |-> FALSE]}

ColumnNames(cols) == {c.name : c \in cols}

EmptyTable(cols) == [columns |-> cols, rows |-> {}]

\* CREATE TABLE: fails when the table exists.
Migrate ==
    /\ MigrationTableName \notin DOMAIN tables
    /\ tables' = [t \in DOMAIN tables \cup {MigrationTableName} |->
                    IF t = MigrationTableName THEN EmptyTable(MigrationColumns)
                    ELSE tables[t]]
    /\ UNCHANGED <<environ, seq, engines, sessions, pc, arg, sess, err, callno, ncalls>>
    /\ UNCHANGED importVars

(***************************************************************************)
(* database.py: get_engine.                                                *)
(***************************************************************************)
EnvVars == {"DB_USER", "DB_PASS", "DB_HOST", "DB_PORT", "DB_NAME"}

EnvValue ==
    [DB_USER |-> "app", DB_PASS |-> "secret", DB_HOST |-> "db.internal",
     DB_PORT |-> "5432", DB_NAME |-> "todo"]

\* Every environment: each variable either set to its value or missing.
Environments == {Restrict(EnvValue, S) : S \in SUBSET EnvVars}

\* os.getenv(key, default)
GetEnvDefaultLocal(e, key, default) == IF key \in DOMAIN e THEN e[key] ELSE "localhost"

GetEnv(e, key, default) == IF key \in DOMAIN e THEN e[key] ELSE default

\* The f-string of line 12, as the pieces it is assembled from.
FormatUrl(user, pass, host, port, name) ==
    <<"postgresql://", Str(user), ":", Str(pass), "@", Str(host), ":", Str(port),
      "/", Str(name)>>

\* The strings int() accepts, and their values.
Digits == {"5432"}

\* create_engine parses the URL back into its components and converts the
\* port with int(), which raises ValueError on text that is no number.
ParseUrl(u) ==
    IF u[8] \in Digits
    THEN [ok |-> TRUE,
          url |-> [drivername |-> "postgresql", username |-> u[2], password |-> u[4],
                   host |-> u[6], port |-> u[8], database |-> u[10]]]
    ELSE [ok |-> FALSE, url |-> [drivername |-> "postgresql"]]

get_engine(e) ==
    LET DB_USER == GetEnv(e, "DB_USER", None)
        DB_PASS == GetEnv(e, "DB_PASS", None)
        DB_HOST == GetEnv(e, "DB_HOST", None)
        DB_PORT == GetEnv(e, "DB_PORT", None)
        DB_NAME == GetEnv(e, "DB_NAME", None)
    IN  ParseUrl(FormatUrl(DB_USER, DB_PASS, DB_HOST, DB_PORT, DB_NAME))

\* The host names that resolve to a database server: the configured one and
\* the local host. The text "None" names no host.
ResolvableHosts == {"db.internal", "localhost"}

\* A connection attempt of an engine; `up` is whether the server answers.
Connects(url, up) == url.host \in ResolvableHosts /\ up

(***************************************************************************)
(* The store: INSERT into the table of the Task model.                     *)
(***************************************************************************)
IsNull(row, col) ==
    CASE col = "id"      -> row.id = NullId
      [] col = "is_done" -> FALSE
      [] OTHER           -> row[col] = None

\* The row an INSERT of the pending object o builds: an id that is not given
\* is drawn from the sequence, an id that is given is stored as given.
\* `by` records the call that staged the object and `gen` whether the id came
\* from the sequence; neither is a column.
RowOf(o, sq) ==
    [id          |-> IF o.fields.id = NullId THEN sq + 1 ELSE o.fields.id,
     title       |-> o.fields.title,
     description |-> o.fields.description,
     due_date    |-> o.fields.due_date,
     is_done     |-> o.fields.is_done,
     by          |-> o.by,
     gen         |-> o.fields.id = NullId]

\* The sequence advances when it is drawn from, whether or not the INSERT
\* then passes its constraints.
SeqAfter(o, sq) == IF o.fields.id = NullId THEN sq + 1 ELSE sq

\* primary_key=True: no stored row has the id of the new row.
PrimaryKeyFree(rows, row) == \A r \in rows : r.id # row.id

InsertError(tbls, row) ==
    IF TaskTableName \notin DOMAIN tbls THEN "ProgrammingError"
    ELSE IF \E c \in tbls[TaskTableName].columns : ~c.nullable /\ IsNull(row, c.name)
         THEN "IntegrityError"
    ELSE IF ~PrimaryKeyFree(tbls[TaskTableName].rows, row) THEN "IntegrityError"
    ELSE "none"

WithRow(tbls, row) ==
    IF TaskTableName \in DOMAIN tbls
    THEN [tbls EXCEPT ![TaskTableName].rows = @ \cup {row}]
    ELSE tbls

\* The flush of a session: one INSERT per pending object, stopping at the
\* first that fails. The result holds the tables as the transaction sees
\* them, the failed row included.
RECURSIVE Flush(_, _, _)
Flush(pending, tbls, sq) ==
    IF pending = {} THEN [err |-> "none", tables |-> tbls, seq |-> sq]
    ELSE LET o    == CHOOSE x \in pending : TRUE
             row  == RowOf(o, sq)
             e    == InsertError(tbls, row)
         IN  IF e # "none"
             THEN [err |-> e, tables |-> WithRow(tbls, row), seq |-> SeqAfter(o, sq)]
             ELSE Flush(pending \ {o}, WithRow(tbls, row), SeqAfter(o, sq))

\* session.commit(): connect, flush, COMMIT. A failure rolls the transaction
\* back, so the tables are as before; the sequence is not rolled back.
SessionCommitNoRollback(s, url, tbls, sq, up) ==
    IF s.new = {} THEN [err |-> "none", tables |-> tbls, seq |-> sq]
    ELSE IF ~Connects(url, up)
         THEN [err |-> "OperationalError", tables |-> tbls, seq |-> sq]
    ELSE Flush(s.new, tbls, sq)

SessionCommit(s, url, tbls, sq, up) ==
    IF s.new = {} THEN [err |-> "none", tables |-> tbls, seq |-> sq]
    ELSE IF ~Connects(url, up)
         THEN [err |-> "OperationalError", tables |-> tbls, seq |-> sq]
    ELSE LET r == Flush(s.new, tbls, sq)
         IN  IF r.err = "none" THEN r
             ELSE [err |-> r.err, tables |-> tbls, seq |-> r.seq]

\* Session.__exit__: close the session, whatever left the block.
SessionExitLeaksOnError(s, e) ==
    IF e = "none" THEN [s EXCEPT !.open = FALSE, !.new = {}] ELSE s

SessionExit(s, e) == [s EXCEPT !.open = FALSE, !.new = {}]

\* Session.__exit__ returns None: the exception in flight goes on to the caller.
AfterExit(e) == e

(***************************************************************************)
(* database.py: create_task, one action per step of one call.              *)
(***************************************************************************)
Args == {PyNone, PyStr} \cup {PyTask(kw) : kw \in Kwargs}

\* Lines 17-19: the assertion, then get_session() = Session(get_engine()).
Call(c, v) ==
    /\ pc[c] = "idle"
    /\ ncalls < MaxCalls
    /\ ncalls' = ncalls + 1
    /\ callno' = [callno EXCEPT ![c] = ncalls + 1]
    /\ arg' = [arg EXCEPT ![c] = v]
    /\ IF ~Truthy(v)
       THEN /\ pc' = [pc EXCEPT ![c] = "done"]
            /\ err' = [err EXCEPT ![c] = "AssertionError"]
            /\ UNCHANGED <<engines, sessions, sess>>
       ELSE LET e == get_engine(environ)
            IN  IF ~e.ok
                THEN /\ pc' = [pc EXCEPT ![c] = "done"]
                     /\ err' = [err EXCEPT ![c] = "ValueError"]
                     /\ UNCHANGED <<engines, sessions, sess>>
                ELSE /\ engines' = Append(engines, [url |-> e.url, call |-> ncalls + 1])
                     /\ sessions' = Append(sessions,
                                       [bind |-> Len(engines) + 1, open |-> TRUE,
                                        new |-> {}, call |-> ncalls + 1])
                     /\ sess' = [sess EXCEPT ![c] = Len(sessions) + 1]
                     /\ pc' = [pc EXCEPT ![c] = "with"]
                     /\ UNCHANGED err
    /\ UNCHANGED <<environ, tables, seq>>
    /\ UNCHANGED importVars

\* Line 20: session.add(task) stages a mapped instance and raises on any
\* other object.
Add(c) ==
    /\ pc[c] = "with"
    /\ IF arg[c].type = "Task"
       THEN /\ sessions' = [sessions EXCEPT ![sess[c]].new =
                               @ \cup {[fields |-> TaskInit(arg[c].kw), by |-> callno[c]]}]
            /\ pc' = [pc EXCEPT ![c] = "added"]
            /\ UNCHANGED err
       ELSE /\ err' = [err EXCEPT ![c] = "UnmappedInstanceError"]
            /\ pc' = [pc EXCEPT ![c] = "raising"]
            /\ UNCHANGED sessions
    /\ UNCHANGED <<environ, tables, seq, engines, arg, sess, callno, ncalls>>
    /\ UNCHANGED importVars

\* Line 21: session.commit().
Commit(c) ==
    /\ pc[c] = "added"
    /\ \E up \in BOOLEAN :
         LET s == sessions[sess[c]]
             r == SessionCommit(s, engines[s.bind].url, tables, seq, up)
         IN  /\ tables' = r.tables
             /\ seq' = r.seq
             /\ err' = [err EXCEPT ![c] = r.err]
             /\ pc' = [pc EXCEPT ![c] = IF r.err = "none" THEN "committed" ELSE "raising"]
             /\ sessions' = [sessions EXCEPT ![sess[c]].new = {}]
    /\ UNCHANGED <<environ, engines, arg, sess, callno, ncalls>>
    /\ UNCHANGED importVars

\* The end of the with block, reached normally or by an exception.
Exit(c) ==
    /\ pc[c] \in {"committed", "raising"}
    /\ sessions' = [sessions EXCEPT ![sess[c]] = SessionExit(@, err[c])]
    /\ err' = [err EXCEPT ![c] = AfterExit(@)]
    /\ pc' = [pc EXCEPT ![c] = "done"]
    /\ UNCHANGED <<environ, tables, seq, engines, arg, sess, callno, ncalls>>
    /\ UNCHANGED importVars

\* The caller has the outcome of its call and goes on.
Return(c) ==
    /\ pc[c] = "done"
    /\ pc' = [pc EXCEPT ![c] = "idle"]
    /\ arg' = [arg EXCEPT ![c] = PyNone]
    /\ err' = [err EXCEPT ![c] = "none"]
    /\ sess' = [sess EXCEPT ![c] = 0]
    /\ callno' = [callno EXCEPT ![c] = 0]
    /\ UNCHANGED <<environ, tables, seq, engines, sessions, ncalls>>
    /\ UNCHANGED importVars

(***************************************************************************)
(* The two modules of the package, as the statements their bodies run.     *)
(***************************************************************************)
ModDatabase == "session_12.database"
ModModels == "session_12.models"
Modules == {ModDatabase, ModModels}

AllNames ==
    [m \in Modules |->
        IF m = ModDatabase
        THEN {"os", "Engine", "Session", "create_engine", "Task",
              "get_engine", "get_session", "create_task"}
        ELSE {"os", "Optional", "datetime", "Field", "SQLModel", "create_engine",
              "database", "Task"}]

\* The state of the store and of the interpreter once both modules are
\* loaded: the table of the Task model exists and is empty.
InitLoaded ==
    /\ tables = [t \in {TaskTableName} |-> EmptyTable(TaskColumns)]
    /\ seq = 0
    /\ engines = <<>>
    /\ sessions = <<>>
    /\ pc = [c \in Callers |-> "idle"]
    /\ arg = [c \in Callers |-> PyNone]
    /\ sess = [c \in Callers |-> 0]
    /\ err = [c \in Callers |-> "none"]
    /\ callno = [c \in Callers |-> 0]
    /\ ncalls = 0
    /\ modules = [m \in Modules |-> "loaded"]
    /\ ns = AllNames
    /\ frames = <<>>
    /\ exc = "none"
    /\ metadata = {TaskTableName}

Init ==
    /\ environ \in Environments
    /\ InitLoaded

Next ==
    \/ Migrate
    \/ \E v \in Args : Call(1, v)
    \/ Add(1)
    \/ Commit(1)
    \/ Exit(1)
    \/ Return(1)

Spec == Init /\ [][Next]_vars

(***************************************************************************)
(* Two callers at once, in a complete environment, each passing a Task     *)
(* that has a title and a description.                                     *)
(***************************************************************************)
ConcArgs == {PyTask(kw) : kw \in {k \in Kwargs : Given(k, "title") /\ Given(k, "description")}}

InitConc ==
    /\ environ = EnvValue
    /\ InitLoaded

NextConc ==
    \E c \in Callers :
        \/ \E v \in ConcArgs : Call(c, v)
        \/ Add(c)
        \/ Commit(c)
        \/ Exit(c)
        \/ Return(c)

SpecConc == InitConc /\ [][NextConc]_vars

(***************************************************************************)
(* Loading the modules. Each body is the sequence of its statements;       *)
(* `line` is the statement's line in the file.                             *)
(***************************************************************************)
Stmt(line, kind, binds, target) ==
    [line |-> line, kind |-> kind, binds |-> binds, target |-> target]

Body(m) ==
    IF m = ModDatabase
    THEN << Stmt(1, "import", {"os"}, ""),
            Stmt(2, "import", {"Engine"}, ""),
            Stmt(3, "import", {"Session", "create_engine"}, ""),
            Stmt(4, "from_module", {"Task"}, ModModels),
            Stmt(6, "def", {"get_engine"}, ""),
            Stmt(14, "def", {"get_session"}, ""),
            Stmt(17, "def", {"create_task"}, "") >>
    ELSE << Stmt(1, "import", {"os"}, ""),
            Stmt(2, "import", {"Optional"}, ""),
            Stmt(3, "import", {"datetime"}, ""),
            Stmt(4, "import", {"Field", "SQLModel", "create_engine"}, ""),
            Stmt(6, "from_package", {"database"}, ModDatabase),
            Stmt(9, "class", {"Task"}, ""),
            Stmt(17, "create_all", {"get_engine"}, ModDatabase) >>

Top == frames[Len(frames)]

Current == Body(Top.mod)[Top.ip]

\* The statement is done: the body goes on to its next statement, or it is
\* at its end and the module is loaded.
FramesAfter ==
    IF Top.ip = Len(Body(Top.mod))
    THEN SubSeq(frames, 1, Len(frames) - 1)
    ELSE [frames EXCEPT ![Len(frames)].ip = @ + 1]

ModulesAfter ==
    IF Top.ip = Len(Body(Top.mod)) THEN [modules EXCEPT ![Top.mod] = "loaded"] ELSE modules

Bind(names) == [ns EXCEPT ![Top.mod] = @ \cup names]

\* The import system starts to load module m: it enters sys.modules before
\* its body runs.
StartLoading(m) ==
    /\ modules' = [x \in DOMAIN modules \cup {m} |->
                      IF x = m THEN "initializing" ELSE modules[x]]
    /\ frames' = Append(frames, [mod |-> m, ip |-> 1])
    /\ UNCHANGED <<ns, exc, metadata, tables, engines>>

\* create_all issues CREATE TABLE for each declared table that is missing.
CreateAll(tbls, declared) ==
    [t \in DOMAIN tbls \cup declared |->
        IF t \in DOMAIN tbls THEN tbls[t] ELSE EmptyTable(TaskColumns)]

\* `from M import name` needs the name bound in M now: a module that is in
\* sys.modules is not loaded again, whether or not its body has finished.
HasName(m, names) == names \subseteq ns[m]

ExecStatement ==
    /\ frames # <<>>
    /\ exc = "none"
    /\ CASE Current.kind \in {"import", "def"} ->
              /\ ns' = Bind(Current.binds)
              /\ frames' = FramesAfter
              /\ modules' = ModulesAfter
              /\ UNCHANGED <<exc, metadata, tables, engines>>
         [] Current.kind = "class" ->
              /\ ns' = Bind(Current.binds)
              /\ metadata' = metadata \cup {TaskTableName}
              /\ frames' = FramesAfter
              /\ modules' = ModulesAfter
              /\ UNCHANGED <<exc, tables, engines>>
         [] Current.kind = "from_module" ->
              IF Current.target \notin DOMAIN modules
              THEN StartLoading(Current.target)
              ELSE IF HasName(Current.target, Current.binds)
                   THEN /\ ns' = Bind(Current.binds)
                        /\ frames' = FramesAfter
                        /\ modules' = ModulesAfter
                        /\ UNCHANGED <<exc, metadata, tables, engines>>
                   ELSE /\ exc' = "ImportError"
                        /\ UNCHANGED <<ns, frames, modules, metadata, tables, engines>>
         [] Current.kind = "from_package" ->
              \* a submodule that is in sys.modules is bound as it is
              IF Current.target \notin DOMAIN modules
              THEN StartLoading(Current.target)
              ELSE /\ ns' = Bind(Current.binds)
                   /\ frames' = FramesAfter
                   /\ modules' = ModulesAfter
                   /\ UNCHANGED <<exc, metadata, tables, engines>>
         [] Current.kind = "create_all" ->
              \* SQLModel.metadata.create_all(database.get_engine())
              IF ~HasName(Current.target, Current.binds)
              THEN /\ exc' = "AttributeError"
                   /\ UNCHANGED <<ns, frames, modules, metadata, tables, engines>>
              ELSE LET e == get_engine(environ)
                   IN  IF ~e.ok
                       THEN /\ exc' = "ValueError"
                            /\ UNCHANGED <<ns, frames, modules, metadata, tables, engines>>
                       ELSE \E up \in BOOLEAN :
                              /\ engines' = Append(engines, [url |-> e.url, call |-> 0])
                              /\ IF Connects(e.url, up)
                                 THEN /\ tables' = CreateAll(tables, metadata)
                                      /\ frames' = FramesAfter
                                      /\ modules' = ModulesAfter
                                      /\ UNCHANGED exc
                                 ELSE /\ exc' = "OperationalError"
                                      /\ UNCHANGED <<tables, frames, modules>>
                              /\ UNCHANGED <<ns, metadata>>
    /\ UNCHANGED <<environ, seq, sessions, pc, arg, sess, err, callno, ncalls>>

\* An exception leaves the body it was raised in: the import of that module
\* has failed, the module is removed from sys.modules, and the exception
\* reaches the statement that imported it.
Propagate ==
    /\ frames # <<>>
    /\ exc # "none"
    /\ frames' = SubSeq(frames, 1, Len(frames) - 1)
    /\ modules' = [x \in DOMAIN modules \ {Top.mod} |-> modules[x]]
    /\ ns' = [ns EXCEPT ![Top.mod] = {}]
    /\ UNCHANGED <<exc, metadata>>
    /\ UNCHANGED <<environ, tables, seq, engines, sessions, pc, arg, sess, err, callno, ncalls>>

\* A fresh interpreter and an empty database; `import root` has begun.
InitImport ==
    /\ environ \in Environments
    /\ tables = [t \in {} |-> EmptyTable(TaskColumns)]
    /\ seq = 0
    /\ engines = <<>>
    /\ sessions = <<>>
    /\ pc = [c \in Callers |-> "idle"]
    /\ arg = [c \in Callers |-> PyNone]
    /\ sess = [c \in Callers |-> 0]
    /\ err = [c \in Callers |-> "none"]
    /\ callno = [c \in Callers |-> 0]
    /\ ncalls = 0
    /\ \E root \in Modules :
         /\ modules = [m \in {root} |-> "initializing"]
         /\ frames = <<[mod |-> root, ip |-> 1]>>
    /\ ns = [m \in Modules |-> {}]
    /\ exc = "none"
    /\ metadata = {}

NextImport ==
    \/ ExecStatement
    \/ Propagate

SpecImport == InitImport /\ [][NextImport]_vars

(***************************************************************************)
(* Properties.                                                             *)
(***************************************************************************)
AllRows == UNION {tables[t].rows : t \in DOMAIN tables}

RowsBy(k) == {r \in AllRows : r.by = k}

Finished(c) == pc[c] = "done"

PassedTask(c) == arg[c].type = "Task"

TitledTask(c) ==
    /\ PassedTask(c)
    /\ Given(arg[c].kw, "title")
    /\ Given(arg[c].kw, "description")

OpenSessions == {i \in DOMAIN sessions : sessions[i].open}

CommitErrors == {"IntegrityError", "OperationalError", "ProgrammingError"}

\* C1: a call that passed a Task with a title and a description and whose
\* commit succeeded has left exactly one stored record; that record has an
\* id, and is_done is true only if the caller gave is_done=True. No call ever
\* leaves more than one record and no two stored records share an id.
C1_CreateYieldsOneRecord ==
    /\ \A c \in Callers :
         (Finished(c) /\ TitledTask(c) /\ err[c] = "none") =>
            /\ Cardinality(RowsBy(callno[c])) = 1
            /\ \A r \in RowsBy(callno[c]) :
                 /\ r.id # NullId
                 /\ r.is_done => (Given(arg[c].kw, "is_done") /\ arg[c].kw.is_done)
    /\ \A k \in 1..ncalls : Cardinality(RowsBy(k)) <= 1
    /\ \A r1 \in AllRows : \A r2 \in AllRows : r1.id = r2.id => r1 = r2

\* A second successful create, after a first whose record is stored.
C1_Witness ==
    \E c \in Callers :
        /\ Finished(c) /\ TitledTask(c) /\ err[c] = "none"
        /\ ~Given(arg[c].kw, "is_done")
        /\ Cardinality(AllRows) = 2

\* C2: a call that passed None has failed with AssertionError, is bound to
\* no session, and no engine, no session and no stored record stems from it.
C2_NullTaskFailsAtAssertion ==
    \A c \in Callers :
        (Finished(c) /\ arg[c].type = "NoneType") =>
            /\ err[c] = "AssertionError"
            /\ sess[c] = 0
            /\ \A i \in DOMAIN engines : engines[i].call # callno[c]
            /\ \A i \in DOMAIN sessions : sessions[i].call # callno[c]
            /\ RowsBy(callno[c]) = {}

\* A call with None in a complete environment, with a record already stored.
C2_Witness ==
    \E c \in Callers :
        /\ Finished(c) /\ arg[c].type = "NoneType"
        /\ DOMAIN environ = EnvVars
        /\ AllRows # {}

\* The step in which some caller's commit raises.
CommitFails == \E c \in Callers : pc[c] = "added" /\ pc'[c] = "raising"

NotNullHolds ==
    \A t \in DOMAIN tables : \A r \in tables[t].rows : \A col \in tables[t].columns :
        ~col.nullable => ~IsNull(r, col.name)

\* C3: a call whose commit failed has stored nothing and ends with the error;
\* a call that passed a Task and stored nothing ends with an error; every
\* stored row satisfies the NOT NULL constraints of its table; and the step
\* in which a commit fails leaves the tables as they were.
C3_FailedCommitStoresNothing ==
    /\ [](/\ \A c \in Callers :
               (pc[c] \in {"raising", "done"} /\ err[c] \in CommitErrors) =>
                   RowsBy(callno[c]) = {}
          /\ \A c \in Callers :
               (Finished(c) /\ PassedTask(c) /\ RowsBy(callno[c]) = {}) =>
                   err[c] # "none"
          /\ NotNullHolds)
    /\ [][CommitFails => tables' = tables]_vars

\* A commit rejected by the store while an earlier record is stored.
C3_Witness ==
    \E c \in Callers :
        /\ Finished(c) /\ err[c] = "IntegrityError"
        /\ AllRows # {}

\* C4: a session is open only while its caller is inside the with block, so
\* a caller that is not inside create_task's with block has no open session
\* and, when no call is in progress, no session is open.
C4_SessionReleasedOnEveryExit ==
    /\ \A i \in OpenSessions :
         \E c \in Callers :
            sess[c] = i /\ pc[c] \in {"with", "added", "committed", "raising"}
    /\ (\A c \in Callers : pc[c] \in {"idle", "done"}) => OpenSessions = {}

\* A call that opened a session and ended with the error its commit raised,
\* after a call that returned normally.
C4_Witness ==
    \E c \in Callers :
        /\ Finished(c) /\ err[c] \in CommitErrors /\ sess[c] # 0
        /\ Len(sessions) = 2
        /\ AllRows # {}

\* C5: two calls in progress at once with distinct Tasks use distinct
\* sessions, and once both are finished both have succeeded and their
\* records have distinct ids. Stated here for callers that gave no id and
\* whose connection was answered, which the claim covers.
C5_ConcurrentCreatesBothSucceed ==
    \A c \in Callers : \A d \in Callers :
        (/\ c # d
         /\ pc[c] # "idle" /\ pc[d] # "idle"
         /\ arg[c] # arg[d]
         /\ ~Given(arg[c].kw, "id") /\ ~Given(arg[d].kw, "id")
         /\ err[c] # "OperationalError" /\ err[d] # "OperationalError") =>
            /\ sess[c] # sess[d]
            /\ (Finished(c) /\ Finished(d)) =>
                  /\ err[c] = "none" /\ err[d] = "none"
                  /\ \A r1 \in RowsBy(callno[c]) : \A r2 \in RowsBy(callno[d]) :
                       r1.id # r2.id

C7_NullDueDateSucceeds ==
    \A c \in Callers :
        (/\ Finished(c) /\ TitledTask(c)
         /\ ~Given(arg[c].kw, "due_date")
         /\ ~Given(arg[c].kw, "id")
         /\ err[c] \notin {"OperationalError", "ValueError"}) =>
            /\ err[c] = "none"
            /\ \E r \in RowsBy(callno[c]) :
                 /\ r.id # NullId
                 /\ r.is_done => (Given(arg[c].kw, "is_done") /\ arg[c].kw.is_done)

\* C8: once the migration is applied, the record of a successful create is a
\* row of the table the migration made, and the model's table is that table
\* with the same columns.
C8_RecordLandsInMigrationTable ==
    \A c \in Callers :
        (/\ Finished(c) /\ PassedTask(c) /\ err[c] = "none"
         /\ MigrationTableName \in DOMAIN tables) =>
            /\ RowsBy(callno[c]) \subseteq tables[MigrationTableName].rows
            /\ TaskTableName = MigrationTableName
            /\ ColumnNames(TaskColumns) = ColumnNames(MigrationColumns)

HostMissing == "DB_HOST" \notin DOMAIN environ

\* What C9 says of a finished call that passed its assertion: get_engine
\* raised nothing, the engine's host is the marker and resolves nowhere, and
\* the commit of a Task failed on the connection with nothing stored.
FailsLateOnHost(c) ==
    /\ err[c] # "ValueError"
    /\ sess[c] # 0
    /\ engines[sessions[sess[c]].bind].url.host = Str(None)
    /\ engines[sessions[sess[c]].bind].url.host \notin ResolvableHosts
    /\ PassedTask(c) => (err[c] = "OperationalError" /\ RowsBy(callno[c]) = {})

\* C9 as claimed: whenever DB_HOST is missing.
C9_MissingHostFailsLate ==
    \A c \in Callers :
        (Finished(c) /\ Truthy(arg[c]) /\ HostMissing) => FailsLateOnHost(c)

\* C9 as amended: when DB_HOST is missing and DB_PORT is set to a number.
C9_MissingHostFailsLateGivenPort ==
    \A c \in Callers :
        (Finished(c) /\ Truthy(arg[c]) /\ HostMissing /\ "DB_PORT" \in DOMAIN environ) =>
            FailsLateOnHost(c)

\* A create of a valid Task with only DB_HOST missing.
C9_Witness ==
    \E c \in Callers :
        /\ Finished(c) /\ PassedTask(c)
        /\ DOMAIN environ = EnvVars \ {"DB_HOST"}
        /\ err[c] = "OperationalError"

\* C10: no statement of a module body uses a name of the other module before
\* that module has bound it, whichever module is imported first.
C10_ImportNeverUsesUnboundName == exc \notin {"ImportError", "AttributeError"}

====
